---------------------------- MODULE Spec2Model ----------------------------
(***************************************************************************)
(* The ERC-20 faucet: contracts/Token.sol (Token) and TokenFaucet          *)
(* (unnamed/part_002, lines 426-557), as a state machine whose steps are   *)
(* the transactions the chain executes one after the other.                *)
(*                                                                         *)
(* Amounts are counted in whole tokens: the unit is 10^18 base units, so   *)
(* 100 * 10 ** 18 is written 100.  Time is block.timestamp in seconds.     *)
(* A reverted transaction leaves the storage of both contracts as it was   *)
(* and emits nothing; lastTx records the outcome of the last transaction   *)
(* (its revert reason and the events of its receipt).                      *)
(***************************************************************************)
EXTENDS Integers, Sequences, FiniteSets, TLC

\* ---------------------------------------------------------------- constants
MAX_SUPPLY == 100000
FAUCET_AMOUNT == 100
COOLDOWN_TIME == 86400
MAX_CLAIM_AMOUNT == 1000

\* ------------------------------------------------------------------- bounds
\* block.timestamp of the block both contracts are deployed in
DeployTime == 1700000000
\* cooldown periods the clock may advance in Spec
MaxDays == 1
\* cooldown periods the clock may advance in SpecLife
LifeDays == 10
\* events the log keeps in SpecLog
MaxLog == 5
\* largest ether balance the deployer starts the deployment script with
MaxEth == 2
MaxConnects == 2

\* ---------------------------------------------------------------- addresses
Zero == "0x0"
Deployer == "deployer"
Alice == "alice"
FaucetAddr == "faucet"
TokenAddr == "token"
\* a token contract whose mint calls back into the faucet before it returns
CallbackAddr == "callbackToken"
Others == "otherAccounts"

\* externally owned accounts that send transactions
Callers == {Deployer, Alice}
\* accounts that hold balances
Holders == {Deployer, Alice, FaucetAddr}
Addr == {Zero, CallbackAddr, Others} \cup Holders

\* ------------------------------------------------------------ revert reasons
OK == "ok"
ErrPaused == "Faucet is currently paused"
ErrCooldown == "Must wait 24 hours between claims"
ErrLimit == "Lifetime claim limit reached"
ErrOnlyAdmin == "Only admin can pause faucet"
ErrOnlyMinter == "Only minter can mint tokens"
ErrMintZero == "Cannot mint to zero address"
ErrSupply == "Exceeds maximum supply"
ErrMinterZero == "Minter cannot be zero address"
ErrNotOwner == "Ownable: caller is not the owner"
ErrTransferZero == "ERC20: transfer to the zero address"
ErrBalance == "ERC20: transfer amount exceeds balance"
ErrTokenZero == "Token address cannot be zero"
ErrReentrant == "ReentrancyGuard: reentrant call"
ErrCallee == "token.mint reverted"

\* ReentrancyGuard._status
NOT_ENTERED == "not entered"
ENTERED == "entered"

VARIABLES
    now,          \* block.timestamp
    owner,        \* Token: Ownable owner
    minter,       \* Token.minter
    balances,     \* Token: ERC20 balances
    totalSupply,  \* Token: ERC20 total supply
    token,        \* TokenFaucet.token
    admin,        \* TokenFaucet.admin
    paused,       \* TokenFaucet.paused
    lastClaimAt,  \* TokenFaucet.lastClaimAt
    totalClaimed, \* TokenFaucet.totalClaimed
    status,       \* TokenFaucet: the lock of nonReentrant
    lastTx,       \* outcome of the last transaction
    frame,        \* the requestTokens call that is inside token.mint
    pc,           \* scripts/deploy.js: where main() is
    eth,          \* scripts/deploy.js: ether balance of the deployer
    log,          \* the events emitted so far, kept in SpecLog only
    walletConnected,   \* wallet.js: walletConnected
    connectedAddress,  \* wallet.js: connectedAddress
    ethereum,     \* window.ethereum is defined
    listeners,    \* how many times the provider listeners are registered
    pending,      \* connectWallet calls waiting for eth_requestAccounts
    lastUI,       \* outcome of the last call or event of the frontend
    app,          \* App: the React state
    tasks         \* App: timers and fetches that are under way

tokenVars == <<owner, minter, balances, totalSupply>>
faucetVars == <<token, admin, paused, lastClaimAt, totalClaimed, status>>
\* what no transaction of Token or TokenFaucet writes by itself
walletVars == <<walletConnected, connectedAddress, ethereum, listeners, pending>>
uiVars == <<walletVars, lastUI, app, tasks>>
envVars == <<frame, pc, eth, log, uiVars>>
vars == <<now, owner, minter, balances, totalSupply,
          token, admin, paused, lastClaimAt, totalClaimed, status, lastTx,
          frame, pc, eth, log,
          walletConnected, connectedAddress, ethereum, listeners, pending,
          lastUI, app, tasks>>

\* ------------------------------------------------------------------- events
Transfer(from, to, value) ==
    [name |-> "Transfer", from |-> from, to |-> to, value |-> value]

MinterChanged(newMinter) ==
    [name |-> "MinterChanged", newMinter |-> newMinter]

TokensClaimed(user, amount, timestamp) ==
    [name |-> "TokensClaimed", user |-> user, amount |-> amount,
     timestamp |-> timestamp]

FaucetPaused(isPaused) ==
    [name |-> "FaucetPaused", isPaused |-> isPaused]

Tx(op, caller, err, events) ==
    [op |-> op, caller |-> caller, err |-> err, events |-> events]

\* JavaScript's null
Null == "null"

\* the React state of App as useState initialises it
\* lastClaimTime before anything was fetched (null)
NoTime == -1

AppInit ==
    [connected |-> FALSE, address |-> Null, balance |-> 0,
     canClaimNow |-> FALSE, remainingAllowance |-> 0, faucetPaused |-> FALSE,
     lastClaimTime |-> NoTime]

\* the frontend as the page loads it, with a wallet installed
InitUI ==
    /\ walletConnected = FALSE
    /\ connectedAddress = Null
    /\ ethereum = TRUE
    /\ listeners = 0
    /\ pending = 0
    /\ lastUI = [op |-> "load", result |-> "ok", dispatched |-> 0]
    /\ app = AppInit
    /\ tasks = {}

\* no requestTokens call is in progress
NoFrame ==
    [active |-> FALSE, caller |-> Zero, nested |-> "none",
     savedLast |-> [a \in Addr |-> 0], savedTotal |-> [a \in Addr |-> 0]]

\* ------------------------------------------------------------ construction
\* both contracts constructed and wired as the deployment is meant to leave
\* them: the faucet holds the token's address and is the token's minter
Init ==
    /\ now = DeployTime
    /\ owner = Deployer
    /\ minter = FaucetAddr
    /\ balances = [a \in Addr |-> 0]
    /\ totalSupply = 0
    /\ token = TokenAddr
    /\ admin = Deployer
    /\ paused = FALSE
    /\ lastClaimAt = [a \in Addr |-> 0]
    /\ totalClaimed = [a \in Addr |-> 0]
    /\ status = NOT_ENTERED
    /\ lastTx = Tx("constructor", Deployer, OK, <<>>)
    /\ frame = NoFrame
    /\ pc = "done"
    /\ eth = 1
    /\ log = <<>>
    /\ InitUI

\* -------------------------------------------------------------------- Token
\* Token.mint without the supply cap on the amount being minted
MintError_NoCap(sender, to, amount) ==
    IF sender # minter THEN ErrOnlyMinter
    ELSE IF to = Zero THEN ErrMintZero
    ELSE IF ~(totalSupply <= MAX_SUPPLY) THEN ErrSupply
    ELSE OK

\* Token.mint that also lets the owner mint
MintError_OwnerToo(sender, to, amount) ==
    IF sender # minter /\ sender # owner THEN ErrOnlyMinter
    ELSE IF to = Zero THEN ErrMintZero
    ELSE IF ~(totalSupply + amount <= MAX_SUPPLY) THEN ErrSupply
    ELSE OK

\* Token.mint without the minter check
MintError_AnyCaller(sender, to, amount) ==
    IF to = Zero THEN ErrMintZero
    ELSE IF ~(totalSupply + amount <= MAX_SUPPLY) THEN ErrSupply
    ELSE OK

\* Token.mint that refuses to fill the supply exactly
MintError_StrictCap(sender, to, amount) ==
    IF sender # minter THEN ErrOnlyMinter
    ELSE IF to = Zero THEN ErrMintZero
    ELSE IF ~(totalSupply + amount < MAX_SUPPLY) THEN ErrSupply
    ELSE OK

\* the require chain of Token.mint, for msg.sender = sender
MintError(sender, to, amount) ==
    IF sender # minter THEN ErrOnlyMinter
    ELSE IF to = Zero THEN ErrMintZero
    ELSE IF ~(totalSupply + amount <= MAX_SUPPLY) THEN ErrSupply
    ELSE OK

\* a _mint that overwrites the balance instead of adding to it
MintedBalances_Overwrite(to, amount) == [balances EXCEPT ![to] = amount]

\* ERC20._mint
MintedBalances(to, amount) == [balances EXCEPT ![to] = @ + amount]

Mint(sender, to, amount) ==
    LET err == MintError(sender, to, amount) IN
    /\ IF err = OK
       THEN /\ balances' = MintedBalances(to, amount)
            /\ totalSupply' = totalSupply + amount
            /\ lastTx' = Tx("mint", sender, OK, <<Transfer(Zero, to, amount)>>)
       ELSE /\ UNCHANGED <<balances, totalSupply>>
            /\ lastTx' = Tx("mint", sender, err, <<>>)
    /\ UNCHANGED <<now, owner, minter, faucetVars>>

\* Token.setMinter without the onlyOwner modifier
SetMinterError_AnyCaller(sender, newMinter) ==
    IF newMinter = Zero THEN ErrMinterZero
    ELSE OK

\* the onlyOwner modifier and the require of Token.setMinter
SetMinterError(sender, newMinter) ==
    IF sender # owner THEN ErrNotOwner
    ELSE IF newMinter = Zero THEN ErrMinterZero
    ELSE OK

SetMinter(sender, newMinter) ==
    LET err == SetMinterError(sender, newMinter) IN
    /\ IF err = OK
       THEN /\ minter' = newMinter
            /\ lastTx' = Tx("setMinter", sender, OK, <<MinterChanged(newMinter)>>)
       ELSE /\ UNCHANGED minter
            /\ lastTx' = Tx("setMinter", sender, err, <<>>)
    /\ UNCHANGED <<now, owner, balances, totalSupply, faucetVars>>

\* ERC20.transfer, inherited
TransferError(sender, to, amount) ==
    IF to = Zero THEN ErrTransferZero
    ELSE IF balances[sender] < amount THEN ErrBalance
    ELSE OK

TransferTokens(sender, to, amount) ==
    LET err == TransferError(sender, to, amount) IN
    /\ IF err = OK
       THEN /\ balances' = [a \in Addr |->
                              IF a = sender /\ a = to THEN balances[a]
                              ELSE IF a = sender THEN balances[a] - amount
                              ELSE IF a = to THEN balances[a] + amount
                              ELSE balances[a]]
            /\ lastTx' = Tx("transfer", sender, OK, <<Transfer(sender, to, amount)>>)
       ELSE /\ UNCHANGED balances
            /\ lastTx' = Tx("transfer", sender, err, <<>>)
    /\ UNCHANGED <<now, owner, minter, totalSupply, faucetVars>>

\* -------------------------------------------------------------- TokenFaucet
\* requestTokens without the lifetime-limit require
GateError_NoLimit(caller) ==
    IF ~(~paused) THEN ErrPaused
    ELSE IF ~(now >= lastClaimAt[caller] + COOLDOWN_TIME) THEN ErrCooldown
    ELSE OK

\* requestTokens with a cooldown one second short
GateError_ShortCooldown(caller) ==
    IF ~(~paused) THEN ErrPaused
    ELSE IF ~(now >= lastClaimAt[caller] + COOLDOWN_TIME - 1) THEN ErrCooldown
    ELSE IF ~(totalClaimed[caller] + FAUCET_AMOUNT <= MAX_CLAIM_AMOUNT) THEN ErrLimit
    ELSE OK

\* requestTokens with the lifetime-limit require before the cooldown require
GateError_LimitFirst(caller) ==
    IF ~(~paused) THEN ErrPaused
    ELSE IF ~(totalClaimed[caller] + FAUCET_AMOUNT <= MAX_CLAIM_AMOUNT) THEN ErrLimit
    ELSE IF ~(now >= lastClaimAt[caller] + COOLDOWN_TIME) THEN ErrCooldown
    ELSE OK

\* requestTokens whose lifetime-limit require forgets the amount being claimed
GateError_LimitOffByOne(caller) ==
    IF ~(~paused) THEN ErrPaused
    ELSE IF ~(now >= lastClaimAt[caller] + COOLDOWN_TIME) THEN ErrCooldown
    ELSE IF ~(totalClaimed[caller] <= MAX_CLAIM_AMOUNT) THEN ErrLimit
    ELSE OK

\* requestTokens whose cooldown ends one second late
GateError_StrictCooldown(caller) ==
    IF ~(~paused) THEN ErrPaused
    ELSE IF ~(now > lastClaimAt[caller] + COOLDOWN_TIME) THEN ErrCooldown
    ELSE IF ~(totalClaimed[caller] + FAUCET_AMOUNT <= MAX_CLAIM_AMOUNT) THEN ErrLimit
    ELSE OK

\* requestTokens without the cooldown require
GateError_NoCooldown(caller) ==
    IF ~(~paused) THEN ErrPaused
    ELSE IF ~(totalClaimed[caller] + FAUCET_AMOUNT <= MAX_CLAIM_AMOUNT) THEN ErrLimit
    ELSE OK

\* requestTokens with one cooldown shared by all accounts
GateError_SharedCooldown(caller) ==
    IF ~(~paused) THEN ErrPaused
    ELSE IF \E a \in Addr : ~(now >= lastClaimAt[a] + COOLDOWN_TIME) THEN ErrCooldown
    ELSE IF ~(totalClaimed[caller] + FAUCET_AMOUNT <= MAX_CLAIM_AMOUNT) THEN ErrLimit
    ELSE OK

\* the three require statements of requestTokens, in their order
GateError(caller) ==
    IF ~(~paused) THEN ErrPaused
    ELSE IF ~(now >= lastClaimAt[caller] + COOLDOWN_TIME) THEN ErrCooldown
    ELSE IF ~(totalClaimed[caller] + FAUCET_AMOUNT <= MAX_CLAIM_AMOUNT) THEN ErrLimit
    ELSE OK

\* nonReentrant, before the body: the lock must not be held
NonReentrantError ==
    IF status = ENTERED THEN ErrReentrant ELSE OK

\* nonReentrant that leaves the lock held after the body
NonReentrantAfter_Held == ENTERED

\* nonReentrant, after the body: the lock is released
NonReentrantAfter == NOT_ENTERED

\* requestTokens without the nonReentrant modifier
EntryError_NoModifier(caller) == GateError(caller)

\* what requestTokens checks before it writes: the modifier, then the requires
EntryError(caller) ==
    IF NonReentrantError # OK THEN NonReentrantError
    ELSE GateError(caller)

\* the revert reason of requestTokens: a failing check, or the failure of
\* token.mint(msg.sender, FAUCET_AMOUNT), which the faucet calls as msg.sender
RequestTokensError(caller) ==
    IF EntryError(caller) # OK THEN EntryError(caller)
    ELSE MintError(FaucetAddr, caller, FAUCET_AMOUNT)

\* requestTokens whose writes survive a failing token.mint
ClaimCommitted_KeptOnMintFailure(caller) == GateError(caller) = OK

\* requestTokens whose writes come before the cooldown require
ClaimCommitted_KeptOnCooldown(caller) ==
    RequestTokensError(caller) \in {OK, ErrCooldown}

\* requestTokens that mints without recording the claim
ClaimCommitted_NotRecorded(caller) == FALSE

\* the writes of requestTokens persist iff the call does not revert
ClaimCommitted(caller) == RequestTokensError(caller) = OK

\* requestTokens that records one and a half FAUCET_AMOUNT per claim
RequestTokens_RecordsMore(caller) ==
    LET err == RequestTokensError(caller) IN
    /\ IF ClaimCommitted(caller)
       THEN /\ lastClaimAt' = [lastClaimAt EXCEPT ![caller] = now]
            /\ totalClaimed' = [totalClaimed EXCEPT
                                  ![caller] = @ + FAUCET_AMOUNT + FAUCET_AMOUNT \div 2]
       ELSE UNCHANGED <<lastClaimAt, totalClaimed>>
    /\ IF err = OK
       THEN /\ balances' = MintedBalances(caller, FAUCET_AMOUNT)
            /\ totalSupply' = totalSupply + FAUCET_AMOUNT
            /\ lastTx' = Tx("requestTokens", caller, OK,
                            <<Transfer(Zero, caller, FAUCET_AMOUNT),
                              TokensClaimed(caller, FAUCET_AMOUNT, now)>>)
       ELSE /\ UNCHANGED <<balances, totalSupply>>
            /\ lastTx' = Tx("requestTokens", caller, err, <<>>)
    /\ status' = IF err = OK THEN NonReentrantAfter ELSE status
    /\ UNCHANGED <<now, owner, minter, token, admin, paused>>

RequestTokens(caller) ==
    LET err == RequestTokensError(caller) IN
    /\ IF ClaimCommitted(caller)
       THEN /\ lastClaimAt' = [lastClaimAt EXCEPT ![caller] = now]
            /\ totalClaimed' = [totalClaimed EXCEPT ![caller] = @ + FAUCET_AMOUNT]
       ELSE UNCHANGED <<lastClaimAt, totalClaimed>>
    /\ IF err = OK
       THEN /\ balances' = MintedBalances(caller, FAUCET_AMOUNT)
            /\ totalSupply' = totalSupply + FAUCET_AMOUNT
            /\ lastTx' = Tx("requestTokens", caller, OK,
                            <<Transfer(Zero, caller, FAUCET_AMOUNT),
                              TokensClaimed(caller, FAUCET_AMOUNT, now)>>)
       ELSE /\ UNCHANGED <<balances, totalSupply>>
            /\ lastTx' = Tx("requestTokens", caller, err, <<>>)
    /\ status' = IF err = OK THEN NonReentrantAfter ELSE status
    /\ UNCHANGED <<now, owner, minter, token, admin, paused>>

\* canClaim without the pause test
canClaim_NoPause(user) ==
    IF now < lastClaimAt[user] + COOLDOWN_TIME THEN FALSE
    ELSE IF totalClaimed[user] >= MAX_CLAIM_AMOUNT THEN FALSE
    ELSE TRUE

\* canClaim whose cooldown test is false one second longer
canClaim_StrictCooldown(user) ==
    IF paused THEN FALSE
    ELSE IF now <= lastClaimAt[user] + COOLDOWN_TIME THEN FALSE
    ELSE IF totalClaimed[user] >= MAX_CLAIM_AMOUNT THEN FALSE
    ELSE TRUE

canClaim(user) ==
    IF paused THEN FALSE
    ELSE IF now < lastClaimAt[user] + COOLDOWN_TIME THEN FALSE
    ELSE IF totalClaimed[user] >= MAX_CLAIM_AMOUNT THEN FALSE
    ELSE TRUE

\* a view call that returned value, and one that reverted (Panic 0x11)
Returned(value) == [reverted |-> FALSE, value |-> value]
Panicked == [reverted |-> TRUE, value |-> 0]

\* remainingAllowance that reverts once nothing is left
remainingAllowance_RevertsAtZero(user) ==
    IF totalClaimed[user] >= MAX_CLAIM_AMOUNT THEN Panicked
    ELSE LET remaining == MAX_CLAIM_AMOUNT - totalClaimed[user] IN
         Returned(IF remaining > 0 THEN remaining ELSE 0)

\* remainingAllowance: a checked uint256 subtraction, then the ternary
remainingAllowance(user) ==
    IF totalClaimed[user] > MAX_CLAIM_AMOUNT THEN Panicked
    ELSE LET remaining == MAX_CLAIM_AMOUNT - totalClaimed[user] IN
         Returned(IF remaining > 0 THEN remaining ELSE 0)

isPaused == paused

\* setPaused without the admin require
SetPausedError_NoCheck(sender) == OK

SetPausedError(sender) ==
    IF sender # admin THEN ErrOnlyAdmin ELSE OK

\* setPaused that emits only when the flag changes
SetPausedEvents_OnChange(newPaused) ==
    IF newPaused = paused THEN <<>> ELSE <<FaucetPaused(newPaused)>>

\* the events of a successful setPaused
SetPausedEvents(newPaused) == <<FaucetPaused(newPaused)>>

\* setPaused that forgets the claim times when it unpauses
SetPaused_ForgetsCooldowns(sender, newPaused) ==
    LET err == SetPausedError(sender) IN
    /\ IF err = OK
       THEN /\ paused' = newPaused
            /\ lastClaimAt' = IF newPaused THEN lastClaimAt ELSE [a \in Addr |-> 0]
            /\ lastTx' = Tx("setPaused", sender, OK, SetPausedEvents(newPaused))
       ELSE /\ UNCHANGED <<paused, lastClaimAt>>
            /\ lastTx' = Tx("setPaused", sender, err, <<>>)
    /\ UNCHANGED <<now, tokenVars, token, admin, totalClaimed, status>>

SetPaused(sender, newPaused) ==
    LET err == SetPausedError(sender) IN
    /\ IF err = OK
       THEN /\ paused' = newPaused
            /\ lastTx' = Tx("setPaused", sender, OK, SetPausedEvents(newPaused))
       ELSE /\ UNCHANGED paused
            /\ lastTx' = Tx("setPaused", sender, err, <<>>)
    /\ UNCHANGED <<now, tokenVars, token, admin, lastClaimAt, totalClaimed, status>>

\* ---------------------------------------------------------------- the chain
\* a later block: block.timestamp grows by d seconds, up to days cooldown
\* periods after deployment
Tick(d, days) ==
    /\ now + d <= DeployTime + days * COOLDOWN_TIME
    /\ now' = now + d
    /\ UNCHANGED <<tokenVars, faucetVars, lastTx>>

\* amounts a mint is tried with: what leaves room for exactly one claim, what
\* fills the supply exactly, and one more than that
MintAmounts ==
    {n \in {MAX_SUPPLY - totalSupply - FAUCET_AMOUNT,
            MAX_SUPPLY - totalSupply,
            MAX_SUPPLY - totalSupply + 1} : n >= 0}

\* amounts a transfer is tried with: the whole balance, and one more than it
TransferAmounts(sender) == {balances[sender], balances[sender] + 1}

DoRequestTokens == \E c \in Callers : RequestTokens(c)
DoSetPaused == \E c \in Callers, v \in BOOLEAN : SetPaused(c, v)
DoSetMinter == \E c \in Callers, m \in {Zero, Deployer, FaucetAddr} : SetMinter(c, m)
DoMint == \E c \in Callers, to \in {Zero, Alice} :
              \E n \in MintAmounts : Mint(c, to, n)
DoTransfer == \E c \in Callers :
                  \E to \in {Zero} \cup (Callers \ {c}), n \in TransferAmounts(c) :
                      TransferTokens(c, to, n)
DoTick == \E d \in {COOLDOWN_TIME - 1, COOLDOWN_TIME} : Tick(d, MaxDays)

Next ==
    \/ DoRequestTokens /\ UNCHANGED envVars
    \/ DoSetPaused /\ UNCHANGED envVars
    \/ DoSetMinter /\ UNCHANGED envVars
    \/ DoMint /\ UNCHANGED envVars
    \/ DoTransfer /\ UNCHANGED envVars
    \/ DoTick /\ UNCHANGED envVars

Spec == Init /\ [][Next]_vars

\* the faucet and its minter role, long enough for an account to use up its
\* lifetime quota
DoTickLife == Tick(COOLDOWN_TIME, LifeDays)

NextLife ==
    \/ DoRequestTokens /\ UNCHANGED envVars
    \/ DoSetPaused /\ UNCHANGED envVars
    \/ DoSetMinter /\ UNCHANGED envVars
    \/ DoTickLife /\ UNCHANGED envVars

SpecLife == Init /\ [][NextLife]_vars

\* ------------------------------------------------- accounts that keep asking
\* n accounts other than the callers, none of which has claimed before, each
\* call requestTokens in the current block and succeed; their records and
\* balances are kept as one total
OthersClaim(n) ==
    /\ n >= 1
    /\ ~paused
    /\ minter = FaucetAddr
    /\ totalSupply + n * FAUCET_AMOUNT <= MAX_SUPPLY
    /\ lastClaimAt' = [lastClaimAt EXCEPT ![Others] = now]
    /\ totalClaimed' = [totalClaimed EXCEPT ![Others] = @ + n * FAUCET_AMOUNT]
    /\ balances' = MintedBalances(Others, n * FAUCET_AMOUNT)
    /\ totalSupply' = totalSupply + n * FAUCET_AMOUNT
    /\ lastTx' = Tx("requestTokens", Others, OK,
                    <<Transfer(Zero, Others, FAUCET_AMOUNT),
                      TokensClaimed(Others, FAUCET_AMOUNT, now)>>)
    /\ UNCHANGED <<now, owner, minter, token, admin, paused, status>>

\* how many of them claim: all the supply has room for, or all but one
DoOthersClaim ==
    \E n \in {(MAX_SUPPLY - totalSupply) \div FAUCET_AMOUNT - 1,
              (MAX_SUPPLY - totalSupply) \div FAUCET_AMOUNT} : OthersClaim(n)

\* the callers call requestTokens in every block in which they can succeed:
\* the next cooldown period is looked at once none of them can, and the
\* periods during which the faucet is paused are not counted
DoTickLive ==
    /\ ~paused
    /\ \A a \in Callers : RequestTokensError(a) # OK
    /\ Tick(COOLDOWN_TIME, LifeDays)

NextLive ==
    \/ DoRequestTokens /\ UNCHANGED envVars
    \/ DoOthersClaim /\ UNCHANGED envVars
    \/ DoSetPaused /\ UNCHANGED envVars
    \/ DoTickLive /\ UNCHANGED envVars

\* time keeps advancing and every caller keeps calling requestTokens
SpecLive ==
    /\ Init
    /\ [][NextLive]_vars
    /\ WF_vars(DoTickLive /\ UNCHANGED envVars)
    /\ \A a \in Callers : WF_vars(RequestTokens(a) /\ UNCHANGED envVars)

\* ------------------------------------------------------ scripts/deploy.js
\* the require of the Token constructor
\* a Token constructor without its require
TokenConstructorError_NoCheck(_minter) == OK

TokenConstructorError(_minter) ==
    IF _minter = Zero THEN ErrMinterZero ELSE OK

\* the require of the TokenFaucet constructor
FaucetConstructorError(_token) ==
    IF _token = Zero THEN ErrTokenZero ELSE OK

\* neither contract exists yet; the deployer holds e ether
InitDeploy ==
    /\ now = DeployTime
    /\ owner = Zero
    /\ minter = Zero
    /\ balances = [a \in Addr |-> 0]
    /\ totalSupply = 0
    /\ token = Zero
    /\ admin = Zero
    /\ paused = FALSE
    /\ lastClaimAt = [a \in Addr |-> 0]
    /\ totalClaimed = [a \in Addr |-> 0]
    /\ status = NOT_ENTERED
    /\ lastTx = Tx("none", Deployer, OK, <<>>)
    /\ frame = NoFrame
    /\ pc = "start"
    /\ eth \in 0..MaxEth
    /\ log = <<>>
    /\ InitUI

\* the argument main() gives the Token constructor
DeployMinterArg == Zero

\* one step of main(): the balance check, then the three transactions, each
\* awaited; a rejected transaction ends main() in the catch of its caller
Main ==
    /\ pc \in {"start", "deployToken", "deployFaucet", "setMinter"}
    /\ CASE pc = "start" ->
              /\ pc' = IF eth = 0 THEN "exit1" ELSE "deployToken"
              /\ UNCHANGED <<tokenVars, faucetVars, lastTx>>
         [] pc = "deployToken" ->
              LET err == TokenConstructorError(DeployMinterArg) IN
              /\ lastTx' = Tx("Token.constructor", Deployer, err, <<>>)
              /\ IF err = OK
                 THEN /\ owner' = Deployer
                      /\ minter' = DeployMinterArg
                      /\ pc' = "deployFaucet"
                 ELSE /\ UNCHANGED <<owner, minter>>
                      /\ pc' = "failed"
              /\ UNCHANGED <<balances, totalSupply, faucetVars>>
         [] pc = "deployFaucet" ->
              LET err == FaucetConstructorError(TokenAddr) IN
              /\ lastTx' = Tx("TokenFaucet.constructor", Deployer, err, <<>>)
              /\ IF err = OK
                 THEN /\ token' = TokenAddr
                      /\ admin' = Deployer
                      /\ paused' = FALSE
                      /\ pc' = "setMinter"
                 ELSE /\ UNCHANGED <<token, admin, paused>>
                      /\ pc' = "failed"
              /\ UNCHANGED <<tokenVars, lastClaimAt, totalClaimed, status>>
         [] pc = "setMinter" ->
              LET err == SetMinterError(Deployer, FaucetAddr) IN
              /\ IF err = OK
                 THEN /\ minter' = FaucetAddr
                      /\ lastTx' = Tx("setMinter", Deployer, OK,
                                      <<MinterChanged(FaucetAddr)>>)
                      /\ pc' = "done"
                 ELSE /\ UNCHANGED minter
                      /\ lastTx' = Tx("setMinter", Deployer, err, <<>>)
                      /\ pc' = "failed"
              /\ UNCHANGED <<owner, balances, totalSupply, faucetVars>>
    /\ UNCHANGED <<now, frame, eth, log, uiVars>>

\* blocks are mined while main() waits for its transactions
DoTickDeploy ==
    \E d \in {COOLDOWN_TIME - 1, COOLDOWN_TIME} : Tick(d, LifeDays)

NextDeploy ==
    \/ Main
    \/ DoTickDeploy /\ UNCHANGED envVars

SpecDeploy == InitDeploy /\ [][NextDeploy]_vars

\* ------------------------------------- requestTokens, one call at a time
\* A faucet constructed with the address of a token whose mint calls back
\* into requestTokens.  The transaction is taken in steps: up to the call of
\* token.mint, the callback, and from the return of token.mint on.
InitReentry ==
    /\ now = DeployTime
    /\ owner = Deployer
    /\ minter = FaucetAddr
    /\ balances = [a \in Addr |-> 0]
    /\ totalSupply = 0
    /\ token = CallbackAddr
    /\ admin = Deployer
    /\ paused = FALSE
    /\ lastClaimAt = [a \in Addr |-> 0]
    /\ totalClaimed = [a \in Addr |-> 0]
    /\ status = NOT_ENTERED
    /\ lastTx = Tx("constructor", Deployer, OK, <<>>)
    /\ frame = NoFrame
    /\ pc = "done"
    /\ eth = 1
    /\ log = <<>>
    /\ InitUI

\* a transaction calls requestTokens: the modifier and the requires, then the
\* two writes, and the call of token.mint begins
ReqEnter(caller) ==
    LET err == EntryError(caller) IN
    /\ ~frame.active
    /\ IF err = OK
       THEN /\ status' = ENTERED
            /\ lastClaimAt' = [lastClaimAt EXCEPT ![caller] = now]
            /\ totalClaimed' = [totalClaimed EXCEPT ![caller] = @ + FAUCET_AMOUNT]
            /\ frame' = [active |-> TRUE, caller |-> caller, nested |-> "none",
                         savedLast |-> lastClaimAt, savedTotal |-> totalClaimed]
            /\ UNCHANGED lastTx
       ELSE /\ lastTx' = Tx("requestTokens", caller, err, <<>>)
            /\ UNCHANGED <<status, lastClaimAt, totalClaimed, frame>>
    /\ UNCHANGED <<now, tokenVars, token, admin, paused, pc, eth, log, uiVars>>

\* inside token.mint the token calls requestTokens again, as msg.sender; a
\* nested call that is let in writes its claim and returns
MintCallback ==
    LET err == EntryError(token) IN
    /\ frame.active
    /\ frame.nested = "none"
    /\ frame' = [frame EXCEPT !.nested = err]
    /\ IF err = OK
       THEN /\ lastClaimAt' = [lastClaimAt EXCEPT ![token] = now]
            /\ totalClaimed' = [totalClaimed EXCEPT ![token] = @ + FAUCET_AMOUNT]
            /\ status' = NonReentrantAfter
       ELSE UNCHANGED <<lastClaimAt, totalClaimed, status>>
    /\ UNCHANGED <<now, tokenVars, token, admin, paused, lastTx, pc, eth, log, uiVars>>

\* token.mint returns, or reverts and the whole transaction with it
MintReturn(ok) ==
    /\ frame.active
    /\ IF ok
       THEN /\ lastTx' = Tx("requestTokens", frame.caller, OK,
                            <<TokensClaimed(frame.caller, FAUCET_AMOUNT, now)>>)
            /\ status' = NonReentrantAfter
            /\ UNCHANGED <<lastClaimAt, totalClaimed>>
       ELSE /\ lastTx' = Tx("requestTokens", frame.caller, ErrCallee, <<>>)
            /\ status' = NOT_ENTERED
            /\ lastClaimAt' = frame.savedLast
            /\ totalClaimed' = frame.savedTotal
    /\ frame' = NoFrame
    /\ UNCHANGED <<now, tokenVars, token, admin, paused, pc, eth, log, uiVars>>

DoReqEnter == \E c \in Callers : ReqEnter(c)
DoMintReturn == \E ok \in BOOLEAN : MintReturn(ok)

\* other transactions and later blocks come between transactions only
NextReentry ==
    \/ DoReqEnter
    \/ MintCallback
    \/ DoMintReturn
    \/ ~frame.active /\ DoSetPaused /\ UNCHANGED envVars
    \/ ~frame.active /\ DoTick /\ UNCHANGED envVars

SpecReentry == InitReentry /\ [][NextReentry]_vars

\* --------------------------------------------------------- the event log
\* the events of a transaction that did not revert are appended to the
\* chain's log, which is followed for MaxLog entries
Recorded ==
    /\ log' = log \o lastTx'.events
    /\ Len(log') <= MaxLog
    /\ UNCHANGED <<frame, pc, eth, uiVars>>

NextLog ==
    \/ DoRequestTokens /\ Recorded
    \/ DoSetPaused /\ Recorded
    \/ DoTick /\ UNCHANGED envVars

SpecLog == Init /\ [][NextLog]_vars

\* ------------------------------------------- construction with any arguments
\* neither contract exists yet; the Token is deployed first, the TokenFaucet
\* after it, each by any account and with any argument
InitBuild ==
    /\ now = DeployTime
    /\ owner = Zero
    /\ minter = Zero
    /\ balances = [a \in Addr |-> 0]
    /\ totalSupply = 0
    /\ token = Zero
    /\ admin = Zero
    /\ paused = FALSE
    /\ lastClaimAt = [a \in Addr |-> 0]
    /\ totalClaimed = [a \in Addr |-> 0]
    /\ status = NOT_ENTERED
    /\ lastTx = Tx("none", Deployer, OK, <<>>)
    /\ frame = NoFrame
    /\ pc = "deployToken"
    /\ eth = 1
    /\ log = <<>>
    /\ InitUI

TokenExists == pc \in {"deployFaucet", "done"}
FaucetExists == pc = "done"

\* new Token(_minter), sent by sender: Ownable makes the sender the owner
ConstructToken(sender, _minter) ==
    LET err == TokenConstructorError(_minter) IN
    /\ pc = "deployToken"
    /\ lastTx' = Tx("Token.constructor", sender, err, <<>>)
    /\ IF err = OK
       THEN /\ owner' = sender
            /\ minter' = _minter
            /\ pc' = "deployFaucet"
       ELSE UNCHANGED <<owner, minter, pc>>
    /\ UNCHANGED <<now, balances, totalSupply, faucetVars, frame, eth, log, uiVars>>

\* a TokenFaucet constructor that takes the token's owner for its admin
ConstructFaucet_AdminIsOwner(sender, _token) ==
    LET err == FaucetConstructorError(_token) IN
    /\ pc = "deployFaucet"
    /\ lastTx' = Tx("TokenFaucet.constructor", sender, err, <<>>)
    /\ IF err = OK
       THEN /\ token' = _token
            /\ admin' = owner
            /\ paused' = FALSE
            /\ pc' = "done"
       ELSE UNCHANGED <<token, admin, paused, pc>>
    /\ UNCHANGED <<now, tokenVars, lastClaimAt, totalClaimed, status, frame, eth, log, uiVars>>

\* new TokenFaucet(_token), sent by sender
ConstructFaucet(sender, _token) ==
    LET err == FaucetConstructorError(_token) IN
    /\ pc = "deployFaucet"
    /\ lastTx' = Tx("TokenFaucet.constructor", sender, err, <<>>)
    /\ IF err = OK
       THEN /\ token' = _token
            /\ admin' = sender
            /\ paused' = FALSE
            /\ pc' = "done"
       ELSE UNCHANGED <<token, admin, paused, pc>>
    /\ UNCHANGED <<now, tokenVars, lastClaimAt, totalClaimed, status, frame, eth, log, uiVars>>

DoConstructToken ==
    \E c \in Callers, m \in {Zero, Deployer, FaucetAddr} : ConstructToken(c, m)
DoConstructFaucet ==
    \E c \in Callers, t \in {Zero, TokenAddr} : ConstructFaucet(c, t)

NextBuild ==
    \/ DoConstructToken
    \/ DoConstructFaucet
    \/ TokenExists /\ DoSetMinter /\ UNCHANGED envVars
    \/ FaucetExists /\ DoRequestTokens /\ UNCHANGED envVars
    \/ FaucetExists /\ DoSetPaused /\ UNCHANGED envVars
    \/ DoTick /\ UNCHANGED envVars

SpecBuild == InitBuild /\ [][NextBuild]_vars

\* ------------------------------------------------------ utils/wallet.js
\* the accounts a wallet hands out
Accounts == {Alice, Deployer}

UI(op, result, dispatched) ==
    [op |-> op, result |-> result, dispatched |-> dispatched]

hasWallet == ethereum

getConnectedAddress == connectedAddress

isWalletConnected == walletConnected /\ connectedAddress # Null

\* connectWallet up to its await: without a wallet it throws before the try
ConnectWalletCall ==
    /\ listeners + pending < MaxConnects
    /\ IF ~hasWallet
       THEN /\ lastUI' = UI("connectWallet", "throw", 0)
            /\ UNCHANGED pending
       ELSE /\ pending' = pending + 1
            /\ lastUI' = UI("connectWallet", "await", 0)
    /\ UNCHANGED <<walletConnected, connectedAddress, ethereum, listeners>>

\* setupWalletListeners registers its three listeners once more
ListenersAfterSetup == IF ~ethereum THEN listeners ELSE listeners + 1

\* eth_requestAccounts answers with a list of accounts
ConnectWalletResolve(accounts) ==
    /\ pending > 0
    /\ pending' = pending - 1
    /\ IF Len(accounts) = 0
       THEN /\ walletConnected' = FALSE
            /\ connectedAddress' = Null
            /\ lastUI' = UI("connectWallet", "throw", 0)
            /\ UNCHANGED listeners
       ELSE /\ connectedAddress' = accounts[1]
            /\ walletConnected' = TRUE
            /\ listeners' = ListenersAfterSetup
            /\ lastUI' = UI("connectWallet", "ok", 0)
    /\ UNCHANGED ethereum

\* eth_requestAccounts is rejected: the catch of connectWallet
ConnectWalletReject ==
    /\ pending > 0
    /\ pending' = pending - 1
    /\ walletConnected' = FALSE
    /\ connectedAddress' = Null
    /\ lastUI' = UI("connectWallet", "throw", 0)
    /\ UNCHANGED <<ethereum, listeners>>

disconnectWallet ==
    /\ walletConnected' = FALSE
    /\ connectedAddress' = Null

DisconnectWalletCall ==
    /\ disconnectWallet
    /\ lastUI' = UI("disconnectWallet", "ok", 0)
    /\ UNCHANGED <<ethereum, listeners, pending>>

\* the provider emits accountsChanged: every registered listener runs
ProviderAccountsChanged(accounts) ==
    /\ IF listeners = 0
       THEN UNCHANGED <<walletConnected, connectedAddress>>
       ELSE IF Len(accounts) = 0
            THEN disconnectWallet
            ELSE /\ connectedAddress' = accounts[1]
                 /\ UNCHANGED walletConnected
    /\ lastUI' = UI("accountsChanged",
                    IF Len(accounts) = 0 THEN "walletDisconnected"
                                         ELSE "accountChanged",
                    listeners)
    /\ UNCHANGED <<ethereum, listeners, pending>>

\* the provider emits disconnect: every registered listener runs
ProviderDisconnect ==
    /\ IF listeners = 0
       THEN UNCHANGED <<walletConnected, connectedAddress>>
       ELSE disconnectWallet
    /\ lastUI' = UI("disconnect", "walletDisconnected", listeners)
    /\ UNCHANGED <<ethereum, listeners, pending>>

\* window.ethereum is defined or removed by the page's environment
ProviderChange ==
    /\ ethereum' = ~ethereum
    /\ lastUI' = UI("window.ethereum", "ok", 0)
    /\ UNCHANGED <<walletConnected, connectedAddress, listeners, pending>>

AccountLists == {<<>>} \cup {<<a>> : a \in Accounts}

DoConnectWalletResolve == \E accounts \in AccountLists : ConnectWalletResolve(accounts)
DoProviderAccountsChanged == \E accounts \in AccountLists : ProviderAccountsChanged(accounts)

\* what the wallet module leaves alone
notWallet == <<now, tokenVars, faucetVars, lastTx, frame, pc, eth, log, app, tasks>>

NextWallet ==
    \/ ConnectWalletCall /\ UNCHANGED notWallet
    \/ DoConnectWalletResolve /\ UNCHANGED notWallet
    \/ ConnectWalletReject /\ UNCHANGED notWallet
    \/ DisconnectWalletCall /\ UNCHANGED notWallet
    \/ DoProviderAccountsChanged /\ UNCHANGED notWallet
    \/ ProviderDisconnect /\ UNCHANGED notWallet
    \/ ProviderChange /\ UNCHANGED notWallet

SpecWallet == Init /\ [][NextWallet]_vars

\* ------------------------------------------------------------------ App
\* work the App has started and not finished: a timer holds the updateData of
\* the render that scheduled it (its connected and address), a fetch is an
\* updateData waiting in its Promise.all for address
Task(kind, connected, address) ==
    [kind |-> kind, connected |-> connected, address |-> address]

\* updateData up to its await, called with the connected and address it
\* captured: it returns at once unless both are set
UpdateDataStarts(connected, address) ==
    IF ~connected \/ address = Null THEN {}
    ELSE {Task("fetch", connected, address)}

\* handleConnect with the account list the wallet answers with (an empty list
\* and a rejected request both end in the catch); the button is shown while
\* not connected and enabled while there is a wallet
HandleConnect(accounts) ==
    /\ ~app.connected
    /\ hasWallet
    /\ listeners < MaxConnects
    /\ IF accounts = <<>>
       THEN /\ disconnectWallet
            /\ app' = [app EXCEPT !.connected = FALSE, !.address = Null]
            /\ lastUI' = UI("handleConnect", "throw", 0)
            /\ UNCHANGED <<listeners, tasks>>
       ELSE /\ connectedAddress' = accounts[1]
            /\ walletConnected' = TRUE
            /\ listeners' = ListenersAfterSetup
            /\ app' = [app EXCEPT !.connected = TRUE, !.address = accounts[1]]
            /\ tasks' = tasks \cup {Task("timer", app.connected, app.address)}
            /\ lastUI' = UI("handleConnect", "ok", 0)
    /\ UNCHANGED <<ethereum, pending, now, tokenVars, faucetVars, lastTx>>

\* a setTimeout callback runs the updateData it holds
TimerFires(t) ==
    /\ t \in tasks
    /\ t.kind = "timer"
    /\ tasks' = (tasks \ {t}) \cup UpdateDataStarts(t.connected, t.address)
    /\ lastUI' = UI("setTimeout", "ok", 0)
    /\ UNCHANGED <<walletVars, app, now, tokenVars, faucetVars, lastTx>>

\* the Promise.all of an updateData resolves and the five setters run; a
\* reverted view call rejects it and nothing is set
FetchResolves(t) ==
    /\ t \in tasks
    /\ t.kind = "fetch"
    /\ tasks' = tasks \ {t}
    /\ LET allowance == remainingAllowance(t.address) IN
       IF allowance.reverted
       THEN /\ lastUI' = UI("updateData", "throw", 0)
            /\ UNCHANGED app
       ELSE /\ lastUI' = UI("updateData", "ok", 0)
            /\ app' = [app EXCEPT !.balance = balances[t.address],
                                  !.canClaimNow = canClaim(t.address),
                                  !.remainingAllowance = allowance.value,
                                  !.faucetPaused = isPaused,
                                  !.lastClaimTime = lastClaimAt[t.address]]
    /\ UNCHANGED <<walletVars, now, tokenVars, faucetVars, lastTx>>

\* a claim made elsewhere emits TokensClaimed and the listener of the last
\* render calls its updateData
OnTokensClaimed(caller) ==
    /\ RequestTokensError(caller) = OK
    /\ RequestTokens(caller)
    /\ tasks' = tasks \cup UpdateDataStarts(app.connected, app.address)
    /\ lastUI' = UI("TokensClaimed", "ok", 0)
    /\ UNCHANGED <<walletVars, app>>

\* handleRequestTokens: the claim of the connected account; after a success
\* the delayed refresh is scheduled, and the listener hears the event
HandleRequestTokens ==
    /\ app.connected
    /\ app.address # Null
    /\ app.canClaimNow
    /\ ~app.faucetPaused
    /\ RequestTokens(app.address)
    /\ IF RequestTokensError(app.address) = OK
       THEN /\ tasks' = tasks \cup {Task("timer", app.connected, app.address)}
                              \cup UpdateDataStarts(app.connected, app.address)
            /\ lastUI' = UI("handleRequestTokens", "ok", 0)
       ELSE /\ lastUI' = UI("handleRequestTokens", "throw", 0)
            /\ UNCHANGED tasks
    /\ UNCHANGED <<walletVars, app>>

\* handleDisconnect: nothing that was started is cancelled
HandleDisconnect ==
    /\ app.connected
    /\ disconnectWallet
    /\ app' = [app EXCEPT !.connected = FALSE, !.address = Null,
                          !.balance = 0, !.canClaimNow = FALSE,
                          !.remainingAllowance = 0]
    /\ lastUI' = UI("handleDisconnect", "ok", 0)
    /\ UNCHANGED <<ethereum, listeners, pending, tasks,
                   now, tokenVars, faucetVars, lastTx>>

DoHandleConnect == \E accounts \in AccountLists : HandleConnect(accounts)
DoTimerFires == \E t \in tasks : TimerFires(t)
DoFetchResolves == \E t \in tasks : FetchResolves(t)
DoOnTokensClaimed == \E c \in Callers : OnTokensClaimed(c)

\* what the App leaves alone
notApp == <<frame, pc, eth, log>>

\* the App hears no window event: a provider event changes the wallet module only
notProvider == <<now, tokenVars, faucetVars, lastTx, frame, pc, eth, log, app, tasks>>

NextApp ==
    \/ DoHandleConnect /\ UNCHANGED notApp
    \/ DoTimerFires /\ UNCHANGED notApp
    \/ DoFetchResolves /\ UNCHANGED notApp
    \/ DoOnTokensClaimed /\ UNCHANGED notApp
    \/ HandleRequestTokens /\ UNCHANGED notApp
    \/ HandleDisconnect /\ UNCHANGED notApp
    \/ DoProviderAccountsChanged /\ UNCHANGED notProvider
    \/ ProviderDisconnect /\ UNCHANGED notProvider
    \/ DoTick /\ UNCHANGED envVars

\* timers fire and pending reads resolve; nobody has to click, and the chain
\* need not emit anything
SpecApp ==
    /\ Init
    /\ [][NextApp]_vars
    /\ WF_vars(DoTimerFires /\ UNCHANGED notApp)
    /\ WF_vars(DoFetchResolves /\ UNCHANGED notApp)

\* ------------------------------------------------------------- properties
RECURSIVE SumOver(_, _)
SumOver(f, S) ==
    IF S = {} THEN 0
    ELSE LET a == CHOOSE x \in S : TRUE IN f[a] + SumOver(f, S \ {a})

\* the last transaction was requestTokens by a and it ended with err
Requested(a, err) ==
    lastTx.op = "requestTokens" /\ lastTx.caller = a /\ lastTx.err = err

\* the step is a transaction that calls op: the clock moves only between
\* transactions, and every transaction leaves its outcome in lastTx
TxStep(op) == now' = now /\ lastTx'.op = op

\* the step is the transaction requestTokens() sent by a
RequestStep(a) == TxStep("requestTokens") /\ lastTx'.caller = a

\* the step is a transaction setPaused(...) sent by c
PauseStep(c) == TxStep("setPaused") /\ lastTx'.caller = c

\* the step is a transaction mint(...) sent by c
MintStep(c) == TxStep("mint") /\ lastTx'.caller = c

\* a has claimed before and block.timestamp is before the end of its cooldown
InCooldown(a) == lastClaimAt[a] # 0 /\ now < lastClaimAt[a] + COOLDOWN_TIME

\* C1: in every reachable state no account has claimed more than
\* MAX_CLAIM_AMOUNT in total.
C1_TotalClaimedBounded ==
    \A a \in Addr : totalClaimed[a] <= MAX_CLAIM_AMOUNT

\* an account that has used up its quota asked again and was refused
C1_Witness ==
    \E a \in Callers : /\ totalClaimed[a] = MAX_CLAIM_AMOUNT
                       /\ Requested(a, ErrLimit)

\* C2: in every reachable state the total supply is the sum of all balances
\* and is at most MAX_SUPPLY.
C2_SupplyCapped ==
    /\ totalSupply <= MAX_SUPPLY
    /\ SumOver(balances, Addr) = totalSupply

\* the supply is at its maximum and a further mint by the minter was refused
C2_Witness ==
    /\ totalSupply = MAX_SUPPLY
    /\ lastTx.op = "mint" /\ lastTx.err = ErrSupply

\* C3 as stated: a successful requestTokens by A at time T leaves
\* lastClaimAt[A] = T, and every later attempt by A before T + COOLDOWN_TIME
\* fails with the cooldown error.
C3_Original ==
    [][\A a \in Callers : RequestStep(a) =>
          /\ lastTx'.err = OK => lastClaimAt'[a] = now
          /\ InCooldown(a) => lastTx'.err = ErrCooldown]_vars

\* C3 amended: a successful requestTokens by A at time T leaves
\* lastClaimAt[A] = T, and every later attempt by A before T + COOLDOWN_TIME
\* fails, with the cooldown error while the faucet is not paused and with the
\* pause error while it is paused.
C3_CooldownEnforced ==
    [][\A a \in Callers : RequestStep(a) =>
          /\ lastTx'.err = OK => lastClaimAt'[a] = now
          /\ InCooldown(a) /\ ~paused => lastTx'.err = ErrCooldown
          /\ InCooldown(a) /\ paused => lastTx'.err = ErrPaused]_vars

\* an attempt one second before the end of the cooldown was refused
C3_Witness ==
    \E a \in Callers : /\ Requested(a, ErrCooldown)
                       /\ now = lastClaimAt[a] + COOLDOWN_TIME - 1

\* C4 as stated: canClaim(A) is true exactly when requestTokens by A in the
\* same block would succeed.
C4_CanClaimIffRequestSucceeds ==
    \A a \in Callers : canClaim(a) <=> (RequestTokensError(a) = OK)

\* C5: requestTokens reports the first failing condition in the order paused,
\* cooldown, lifetime limit.
C5_ErrorOrder ==
    [][\A a \in Callers : RequestStep(a) =>
          /\ paused => lastTx'.err = ErrPaused
          /\ ~paused /\ now < lastClaimAt[a] + COOLDOWN_TIME
                => lastTx'.err = ErrCooldown
          /\ lastTx'.err = ErrLimit
                => /\ ~paused
                   /\ now >= lastClaimAt[a] + COOLDOWN_TIME
                   /\ totalClaimed[a] + FAUCET_AMOUNT > MAX_CLAIM_AMOUNT]_vars

\* an account both in cooldown and out of quota was told of the cooldown
C5_Witness ==
    \E a \in Callers : /\ Requested(a, ErrCooldown)
                       /\ totalClaimed[a] = MAX_CLAIM_AMOUNT
                       /\ ~paused

\* C6: when token.mint reverts inside requestTokens, the claim record, the
\* balances and the total supply keep their values and no event is emitted.
C6_MintFailureRollsBack ==
    [][\A a \in Callers :
          (/\ RequestStep(a)
           /\ GateError(a) = OK
           /\ MintError(FaucetAddr, a, FAUCET_AMOUNT) # OK) =>
          /\ lastTx'.err = MintError(FaucetAddr, a, FAUCET_AMOUNT)
          /\ lastTx'.events = <<>>
          /\ lastClaimAt' = lastClaimAt
          /\ totalClaimed' = totalClaimed
          /\ balances' = balances
          /\ totalSupply' = totalSupply]_vars

\* a claim that passed the faucet's checks was refused by the supply cap
C6_Witness ==
    \E a \in Callers : /\ Requested(a, ErrSupply)
                       /\ minter = FaucetAddr
                       /\ totalSupply + FAUCET_AMOUNT > MAX_SUPPLY

\* C7: while paused, requestTokens by any account fails with the pause error
\* and canClaim is false for every account.
C7_PausedBlocksAll ==
    /\ [](paused => \A a \in Addr : ~canClaim(a))
    /\ [][\A a \in Callers : paused /\ RequestStep(a) =>
              lastTx'.err = ErrPaused]_vars

\* a paused faucet told an account that was also in cooldown and out of quota
\* of the pause
C7_Witness ==
    \E a \in Callers : /\ Requested(a, ErrPaused)
                       /\ paused
                       /\ InCooldown(a)
                       /\ totalClaimed[a] = MAX_CLAIM_AMOUNT

\* C8: setPaused by anyone but the admin fails with the admin error, leaves
\* the flag as it was and emits nothing; the flag changes only in a
\* successful setPaused by the admin.
C8_OnlyAdminPauses ==
    [][/\ \A c \in Callers : c # admin /\ PauseStep(c) =>
             /\ lastTx'.err = ErrOnlyAdmin
             /\ paused' = paused
             /\ lastTx'.events = <<>>
       /\ paused' # paused =>
             /\ lastTx'.op = "setPaused"
             /\ lastTx'.caller = admin
             /\ lastTx'.err = OK]_vars

\* a paused faucet refused a setPaused from an account that is not the admin
C8_Witness ==
    /\ lastTx.op = "setPaused" /\ lastTx.err = ErrOnlyAdmin
    /\ lastTx.caller # admin
    /\ paused

\* C9: Token.mint by anyone but the current minter, the owner included,
\* reverts with the minter error and changes no balance and not the supply.
C9_OnlyMinterMints ==
    [][\A c \in Callers : c # minter /\ MintStep(c) =>
          /\ lastTx'.err = ErrOnlyMinter
          /\ balances' = balances
          /\ totalSupply' = totalSupply]_vars

\* the owner, who is not the minter, was refused a mint
C9_Witness ==
    /\ lastTx.op = "mint" /\ lastTx.err = ErrOnlyMinter
    /\ lastTx.caller = owner
    /\ minter # owner

\* the total supply grows in a successful requestTokens, by FAUCET_AMOUNT
ClaimMints ==
    /\ lastTx'.op = "requestTokens" /\ lastTx'.err = OK
    /\ totalSupply' = totalSupply + FAUCET_AMOUNT

\* C10 as stated: the minter is the faucet in every reachable state, and the
\* total supply grows only in a successful requestTokens, by FAUCET_AMOUNT.
C10_Original ==
    /\ [](minter = FaucetAddr)
    /\ [][totalSupply' # totalSupply => ClaimMints]_vars

\* C10 amended: the minter is the faucet until the token's owner gives the
\* role to another address with setMinter; while the minter is the faucet the
\* total supply grows only in a successful requestTokens, by FAUCET_AMOUNT,
\* and otherwise only in a mint called by the current minter.
C10_MinterMintsOnly ==
    [][/\ minter' # minter =>
             /\ lastTx'.op = "setMinter" /\ lastTx'.err = OK
             /\ lastTx'.caller = owner
       /\ totalSupply' # totalSupply /\ minter = FaucetAddr => ClaimMints
       /\ totalSupply' # totalSupply /\ minter # FaucetAddr =>
             /\ lastTx'.op = "mint" /\ lastTx'.err = OK
             /\ lastTx'.caller = minter]_vars

\* the faucet is the minter again after another minter minted, and a claim
\* was paid out
C10_Witness ==
    /\ minter = FaucetAddr
    /\ lastTx.op = "requestTokens" /\ lastTx.err = OK
    /\ totalSupply > SumOver(totalClaimed, Addr)

\* main() has run to completion and left the two contracts wired
Deployed ==
    /\ pc = "done"
    /\ minter = FaucetAddr
    /\ token = TokenAddr

\* C11 as stated: started by a deployer with funds, the deployment sequence
\* does not end in a failure, and when it has ended the token's minter is
\* the faucet and the faucet's token is the Token.
C11_DeploymentCompletes ==
    /\ eth > 0 => pc # "failed"
    /\ pc = "done" => Deployed

\* the step is a nested requestTokens, called from inside token.mint
NestedStep == frame.active /\ frame'.active /\ frame'.nested # frame.nested

\* C12: a requestTokens that begins while another one is executing fails with
\* the reentrancy error and writes nothing, and one transaction adds at most
\* one FAUCET_AMOUNT to the claimed totals.
C12_NestedCallRejected ==
    [][/\ NestedStep =>
             /\ frame'.nested = ErrReentrant
             /\ UNCHANGED <<lastClaimAt, totalClaimed, paused, status, lastTx>>
       /\ frame.active /\ ~frame'.active =>
             SumOver(totalClaimed', Addr)
                <= SumOver(frame.savedTotal, Addr) + FAUCET_AMOUNT]_vars

\* a nested call was rejected while the outer claim was inside token.mint
C12_Witness ==
    /\ frame.active
    /\ frame.nested = ErrReentrant
    /\ status = ENTERED
    /\ totalClaimed[frame.caller] = frame.savedTotal[frame.caller] + FAUCET_AMOUNT

\* C13: between transactions the reentrancy lock is released, whatever the
\* outcome of the requestTokens calls so far, and no top-level requestTokens
\* is rejected as reentrant.
C13_LockReleased ==
    /\ status = NOT_ENTERED
    /\ lastTx.err # ErrReentrant

\* a claim succeeded after an earlier claim of the same account had returned
C13_Witness ==
    /\ lastTx.op = "requestTokens"
    /\ lastTx.err = OK
    /\ totalClaimed[lastTx.caller] >= 2 * FAUCET_AMOUNT
    /\ status = NOT_ENTERED

\* account a has never claimed
NeverClaimed(a) == totalClaimed[a] = 0 /\ lastClaimAt[a] = 0

\* C14 as stated: the first requestTokens of an account that has never
\* claimed succeeds on an unpaused faucet and leaves balance FAUCET_AMOUNT,
\* totalClaimed FAUCET_AMOUNT and the allowance one FAUCET_AMOUNT short.
C14_Original ==
    [][\A a \in Callers :
         RequestStep(a) /\ NeverClaimed(a) /\ ~paused =>
            /\ lastTx'.err = OK
            /\ balances'[a] = FAUCET_AMOUNT
            /\ totalClaimed'[a] = FAUCET_AMOUNT
            /\ remainingAllowance(a)' = Returned(MAX_CLAIM_AMOUNT - FAUCET_AMOUNT)]_vars

\* C14: while the faucet is the token's minter and the supply has room for
\* one FAUCET_AMOUNT, the first requestTokens of an account that has never
\* claimed succeeds on an unpaused faucet; it adds FAUCET_AMOUNT to the
\* balance, and leaves totalClaimed FAUCET_AMOUNT and the allowance
\* MAX_CLAIM_AMOUNT - FAUCET_AMOUNT.
C14_FirstClaim ==
    [][\A a \in Callers :
         /\ RequestStep(a) /\ NeverClaimed(a) /\ ~paused
         /\ now >= COOLDOWN_TIME
         /\ minter = FaucetAddr
         /\ totalSupply + FAUCET_AMOUNT <= MAX_SUPPLY
         => /\ lastTx'.err = OK
            /\ balances'[a] = balances[a] + FAUCET_AMOUNT
            /\ totalClaimed'[a] = FAUCET_AMOUNT
            /\ remainingAllowance(a)' = Returned(MAX_CLAIM_AMOUNT - FAUCET_AMOUNT)]_vars

\* a first claim has succeeded for an account that held tokens before
C14_Witness ==
    /\ lastTx.op = "requestTokens"
    /\ lastTx.err = OK
    /\ totalClaimed[lastTx.caller] = FAUCET_AMOUNT
    /\ balances[lastTx.caller] > FAUCET_AMOUNT
    /\ remainingAllowance(lastTx.caller) = Returned(MAX_CLAIM_AMOUNT - FAUCET_AMOUNT)

\* account a claimed before and asks again, unpaused and below its limit,
\* d seconds after its last claim
AsksAgain(a, d) ==
    /\ RequestStep(a)
    /\ lastClaimAt[a] # 0
    /\ now = lastClaimAt[a] + d
    /\ ~paused
    /\ totalClaimed[a] + FAUCET_AMOUNT <= MAX_CLAIM_AMOUNT

\* C15 as stated: a requestTokens exactly COOLDOWN_TIME after the last claim
\* succeeds and adds FAUCET_AMOUNT to the balance; one second earlier it fails.
C15_Original ==
    [][\A a \in Callers :
         /\ AsksAgain(a, COOLDOWN_TIME) =>
               lastTx'.err = OK /\ balances'[a] = balances[a] + FAUCET_AMOUNT
         /\ AsksAgain(a, COOLDOWN_TIME - 1) => lastTx'.err # OK]_vars

\* C15: while the faucet is the token's minter and the supply has room for
\* one FAUCET_AMOUNT, a requestTokens exactly COOLDOWN_TIME after the last
\* claim succeeds and adds FAUCET_AMOUNT to the balance; one second earlier
\* it fails with the cooldown error and changes nothing.
C15_CooldownInclusive ==
    [][\A a \in Callers :
         /\ /\ AsksAgain(a, COOLDOWN_TIME)
            /\ minter = FaucetAddr
            /\ totalSupply + FAUCET_AMOUNT <= MAX_SUPPLY
            => /\ lastTx'.err = OK
               /\ balances'[a] = balances[a] + FAUCET_AMOUNT
               /\ lastClaimAt'[a] = now
         /\ AsksAgain(a, COOLDOWN_TIME - 1) =>
               /\ lastTx'.err = ErrCooldown
               /\ UNCHANGED <<balances, totalClaimed, lastClaimAt>>]_vars

\* a second claim succeeded exactly COOLDOWN_TIME after deployment, where the
\* first one was made
C15_Witness ==
    /\ lastTx.op = "requestTokens"
    /\ lastTx.err = OK
    /\ totalClaimed[lastTx.caller] = 2 * FAUCET_AMOUNT
    /\ lastClaimAt[lastTx.caller] = DeployTime + COOLDOWN_TIME
    /\ now = DeployTime + COOLDOWN_TIME

\* C16: the claimed total is a whole number of FAUCET_AMOUNTs, at most
\* MAX_CLAIM_AMOUNT / FAUCET_AMOUNT of them; an account whose total is
\* MAX_CLAIM_AMOUNT has allowance 0, and its attempts on an unpaused faucet
\* after the cooldown fail with the lifetime-limit error and change nothing.
C16_LifetimeLimit ==
    /\ [](\A a \in Callers :
            /\ totalClaimed[a] % FAUCET_AMOUNT = 0
            /\ totalClaimed[a] \div FAUCET_AMOUNT <= MAX_CLAIM_AMOUNT \div FAUCET_AMOUNT
            /\ totalClaimed[a] = MAX_CLAIM_AMOUNT => remainingAllowance(a) = Returned(0))
    /\ [][\A a \in Callers :
            /\ RequestStep(a) =>
                  \/ lastTx'.err # OK /\ totalClaimed'[a] = totalClaimed[a]
                  \/ /\ lastTx'.err = OK
                     /\ totalClaimed'[a] = totalClaimed[a] + FAUCET_AMOUNT
                     /\ now >= lastClaimAt[a] + COOLDOWN_TIME
            /\ /\ RequestStep(a)
               /\ totalClaimed[a] = MAX_CLAIM_AMOUNT
               /\ ~paused
               /\ now >= lastClaimAt[a] + COOLDOWN_TIME
               => /\ lastTx'.err = ErrLimit
                  /\ UNCHANGED <<balances, totalClaimed, lastClaimAt>>]_vars

\* the eleventh attempt, a cooldown after the tenth claim, was refused
C16_Witness ==
    \E a \in Callers :
        /\ Requested(a, ErrLimit)
        /\ totalClaimed[a] \div FAUCET_AMOUNT = 10
        /\ remainingAllowance(a) = Returned(0)
        /\ ~paused
        /\ now >= lastClaimAt[a] + COOLDOWN_TIME

Max0(x) == IF x > 0 THEN x ELSE 0

\* C17: in every reachable state remainingAllowance returns, for every
\* account, what is left of MAX_CLAIM_AMOUNT, and never reverts.
C17_RemainingAllowance ==
    \A a \in Addr :
        remainingAllowance(a) = Returned(Max0(MAX_CLAIM_AMOUNT - totalClaimed[a]))

\* one account is exhausted and another is part of the way
C17_Witness ==
    \E a, b \in Callers :
        /\ totalClaimed[a] = MAX_CLAIM_AMOUNT
        /\ remainingAllowance(a) = Returned(0)
        /\ totalClaimed[b] = 3 * FAUCET_AMOUNT
        /\ remainingAllowance(b) = Returned(MAX_CLAIM_AMOUNT - 3 * FAUCET_AMOUNT)

\* C18: canClaim is the conjunction of unpaused, cooldown over and total
\* below MAX_CLAIM_AMOUNT; it is false throughout the cooldown.
C18_CanClaim ==
    \A a \in Addr :
        /\ canClaim(a) <=> /\ ~paused
                           /\ now >= lastClaimAt[a] + COOLDOWN_TIME
                           /\ totalClaimed[a] < MAX_CLAIM_AMOUNT
        /\ InCooldown(a) => ~canClaim(a)

\* exactly COOLDOWN_TIME after its claim an account can claim again, while
\* an exhausted one cannot
C18_Witness ==
    \E a, b \in Callers :
        /\ lastClaimAt[a] # 0
        /\ now = lastClaimAt[a] + COOLDOWN_TIME
        /\ canClaim(a)
        /\ totalClaimed[b] = MAX_CLAIM_AMOUNT
        /\ now >= lastClaimAt[b] + COOLDOWN_TIME
        /\ ~canClaim(b)

\* C19: every setPaused(v) of the admin leaves isPaused equal to v and
\* appends one FaucetPaused(v) to the log, also when the flag was v already.
C19_PauseIdempotentButLogged ==
    [][\A v \in BOOLEAN :
         SetPaused(admin, v) =>
            /\ lastTx'.err = OK
            /\ isPaused' = v
            /\ log' = Append(log, FaucetPaused(v))]_vars

\* the admin has called setPaused twice in a row with the same value
C19_Witness ==
    /\ lastTx.op = "setPaused"
    /\ lastTx.err = OK
    /\ \E i \in 1..(Len(log) - 1) :
          /\ i + 1 = Len(log)
          /\ log[i] = FaucetPaused(isPaused)
          /\ log[i + 1] = FaucetPaused(isPaused)

\* C20: a mint by the current minter to a non-zero address succeeds iff the
\* supply stays within MAX_SUPPLY and otherwise fails with the supply error;
\* a mint to the zero address fails; a successful mint adds the amount to the
\* recipient's balance and to the total supply and emits Transfer(0, to,
\* amount); a failed one changes neither.
C20_MintByMinter ==
    [][\A to \in {Zero, Alice} : \A n \in MintAmounts :
         MintStep(minter) /\ Mint(minter, to, n) =>
            /\ to # Zero =>
                  /\ lastTx'.err = OK <=> totalSupply + n <= MAX_SUPPLY
                  /\ lastTx'.err \in {OK, ErrSupply}
            /\ to = Zero => lastTx'.err = ErrMintZero
            /\ lastTx'.err = OK =>
                  /\ balances' = [balances EXCEPT ![to] = balances[to] + n]
                  /\ totalSupply' = totalSupply + n
                  /\ lastTx'.events = <<Transfer(Zero, to, n)>>
            /\ lastTx'.err # OK =>
                  /\ UNCHANGED <<balances, totalSupply>>
                  /\ lastTx'.events = <<>>]_vars

\* a mint of the minter has filled the supply exactly
C20_Witness ==
    /\ lastTx.op = "mint"
    /\ lastTx.err = OK
    /\ lastTx.caller = minter
    /\ totalSupply = MAX_SUPPLY
    /\ balances[Alice] > 0

\* the step is a setMinter call
SetMinterStep == TxStep("setMinter")

\* what setMinter(m) by c does to the minter and the log of the transaction
SetMinterOutcome(c, m) ==
    /\ c # owner =>
          lastTx'.err = ErrNotOwner /\ minter' = minter /\ lastTx'.events = <<>>
    /\ c = owner /\ m = Zero =>
          lastTx'.err = ErrMinterZero /\ minter' = minter /\ lastTx'.events = <<>>
    /\ c = owner /\ m # Zero =>
          /\ lastTx'.err = OK
          /\ minter' = m
          /\ lastTx'.events = <<MinterChanged(m)>>

\* C21 as stated: setMinter fails for a non-owner and for the zero address and
\* leaves the minter; for the owner and a non-zero address it sets the minter
\* and emits MinterChanged, after which a mint by the previous minter is
\* refused and a mint by the new minter is authorized.
C21_Original ==
    [][\A c \in Callers, m \in {Zero, Deployer, FaucetAddr}, old \in Addr :
         SetMinterStep /\ SetMinter(c, m) /\ old = minter =>
            /\ SetMinterOutcome(c, m)
            /\ lastTx'.err = OK =>
                  /\ MintError(old, Alice, 0)' = ErrOnlyMinter
                  /\ MintError(m, Alice, 0)' # ErrOnlyMinter]_vars

\* C21: setMinter fails for a non-owner and for the zero address and leaves
\* the minter; for the owner and a non-zero address it sets the minter and
\* emits MinterChanged, after which a mint by the new minter is authorized
\* and a mint by any other address, the previous minter included unless it
\* is the new one, is refused.
C21_SetMinter ==
    [][\A c \in Callers, m \in {Zero, Deployer, FaucetAddr}, old \in Addr :
         SetMinterStep /\ SetMinter(c, m) /\ old = minter =>
            /\ SetMinterOutcome(c, m)
            /\ lastTx'.err = OK =>
                  /\ old # m => MintError(old, Alice, 0)' = ErrOnlyMinter
                  /\ \A x \in Addr \ {m} : MintError(x, Alice, 0)' = ErrOnlyMinter
                  /\ MintError(m, Alice, 0)' # ErrOnlyMinter]_vars

\* the owner has moved the minter role from the faucet to itself
C21_Witness ==
    /\ lastTx = Tx("setMinter", owner, OK, <<MinterChanged(Deployer)>>)
    /\ minter = Deployer
    /\ totalSupply > 0
    /\ MintError(FaucetAddr, Alice, 0) = ErrOnlyMinter

\* C22: a requestTokens that fails changes neither the claim records, nor the
\* pause flag, nor any balance, nor the total supply, and appends no event;
\* the claim records change in successful claims only.
C22_FailedClaimChangesNothing ==
    [][/\ \A a \in Callers :
            RequestStep(a) /\ lastTx'.err # OK =>
               /\ UNCHANGED <<lastClaimAt, totalClaimed, paused, balances,
                              totalSupply, minter, owner, admin, token, log>>
               /\ lastTx'.events = <<>>
       /\ <<lastClaimAt, totalClaimed>>' # <<lastClaimAt, totalClaimed>> =>
            TxStep("requestTokens") /\ lastTx'.err = OK]_vars

\* an account with a claim on record was refused inside its cooldown and
\* another account had none on record
C22_Witness ==
    \E a, b \in Callers :
        /\ Requested(a, ErrCooldown)
        /\ lastClaimAt[a] = now
        /\ totalClaimed[a] = 2 * FAUCET_AMOUNT
        /\ NeverClaimed(b)

\* C23: no step lowers totalClaimed or lastClaimAt of any account; a
\* successful claim raises the account's lastClaimAt by COOLDOWN_TIME or more
\* and its totalClaimed by FAUCET_AMOUNT; every other step leaves both.
C23_RecordsMonotonic ==
    [][\A a \in Addr :
         /\ totalClaimed'[a] >= totalClaimed[a]
         /\ lastClaimAt'[a] >= lastClaimAt[a]
         /\ IF RequestStep(a) /\ lastTx'.err = OK
            THEN /\ lastClaimAt'[a] > lastClaimAt[a]
                 /\ lastClaimAt'[a] >= lastClaimAt[a] + COOLDOWN_TIME
                 /\ totalClaimed'[a] = totalClaimed[a] + FAUCET_AMOUNT
            ELSE /\ lastClaimAt'[a] = lastClaimAt[a]
                 /\ totalClaimed'[a] = totalClaimed[a]]_vars

\* a second claim was made exactly COOLDOWN_TIME after the first
C23_Witness ==
    \E a \in Callers :
        /\ Requested(a, OK)
        /\ totalClaimed[a] = 2 * FAUCET_AMOUNT
        /\ lastClaimAt[a] = now
        /\ now = DeployTime + COOLDOWN_TIME

\* the entries of the log that are TokensClaimed events of account a
ClaimEvents(a) ==
    {i \in DOMAIN log : log[i].name = "TokensClaimed" /\ log[i].user = a}

\* C24: a successful requestTokens by a appends its Transfer and exactly one
\* TokensClaimed(a, FAUCET_AMOUNT, block.timestamp), the timestamp being the
\* new lastClaimAt; a failed one appends nothing; so the TokensClaimed events
\* of an account number totalClaimed / FAUCET_AMOUNT and their timestamps
\* increase strictly.
C24_ClaimEvents ==
    /\ [](\A a \in Callers :
            /\ Cardinality(ClaimEvents(a)) * FAUCET_AMOUNT = totalClaimed[a]
            /\ \A i, j \in ClaimEvents(a) :
                  i < j => log[i].timestamp < log[j].timestamp
            /\ \A i \in ClaimEvents(a) : log[i].timestamp <= lastClaimAt[a])
    /\ [][\A a \in Callers :
            RequestStep(a) =>
               IF lastTx'.err = OK
               THEN /\ log' = log \o <<Transfer(Zero, a, FAUCET_AMOUNT),
                                        TokensClaimed(a, FAUCET_AMOUNT, now)>>
                    /\ lastClaimAt'[a] = now
               ELSE log' = log]_vars

\* the log holds two TokensClaimed events of one account
C24_Witness ==
    \E a \in Callers :
        /\ Cardinality(ClaimEvents(a)) = 2
        /\ totalClaimed[a] = 2 * FAUCET_AMOUNT
        /\ log[Len(log)] = TokensClaimed(a, FAUCET_AMOUNT, lastClaimAt[a])

\* account a has a successful claim at the current block timestamp
ClaimedThisBlock(a) == lastClaimAt[a] = now

\* C25 as stated: of the requestTokens transactions of one account executed
\* at one block timestamp at most one succeeds, and those that follow it fail
\* with the cooldown error.
C25_Original ==
    [][\A a \in Callers :
         /\ RequestStep(a) /\ lastTx'.err = OK => ~ClaimedThisBlock(a)
         /\ RequestStep(a) /\ ClaimedThisBlock(a) =>
               lastTx'.err = ErrCooldown]_vars

\* C25: of the requestTokens transactions of one account executed at one
\* block timestamp at most one succeeds, crediting FAUCET_AMOUNT once; those
\* that follow it fail and credit nothing, with the cooldown error while the
\* faucet is unpaused and with the pause error while it is paused.
C25_NoDoubleClaim ==
    [][\A a \in Callers :
         /\ RequestStep(a) /\ lastTx'.err = OK =>
               /\ ~ClaimedThisBlock(a)
               /\ ClaimedThisBlock(a)'
               /\ totalClaimed'[a] = totalClaimed[a] + FAUCET_AMOUNT
               /\ balances'[a] = balances[a] + FAUCET_AMOUNT
         /\ RequestStep(a) /\ ClaimedThisBlock(a) =>
               /\ lastTx'.err = IF paused THEN ErrPaused ELSE ErrCooldown
               /\ UNCHANGED <<lastClaimAt, totalClaimed, balances, totalSupply>>]_vars

\* a second requestTokens in the block of the account's first claim was
\* refused for the cooldown
C25_Witness ==
    \E a \in Callers :
        /\ Requested(a, ErrCooldown)
        /\ ClaimedThisBlock(a)
        /\ ~paused
        /\ totalClaimed[a] = FAUCET_AMOUNT
        /\ balances[a] = FAUCET_AMOUNT

\* apart from the pause flag, account a passes the requires of requestTokens
Eligible(a) ==
    /\ now >= lastClaimAt[a] + COOLDOWN_TIME
    /\ totalClaimed[a] + FAUCET_AMOUNT <= MAX_CLAIM_AMOUNT

\* C26: a setPaused call changes the pause flag and appends at most its event
\* and leaves the claim records, the admin, the balances and the total
\* supply; so when the faucet is unpaused every account that is eligible
\* apart from the pause passes the requires of requestTokens again.
C26_PauseFrame ==
    [][\A c \in Callers :
         PauseStep(c) =>
            /\ UNCHANGED <<lastClaimAt, totalClaimed, admin, balances,
                           totalSupply, minter, owner, token, status>>
            /\ log' \in {log, Append(log, FaucetPaused(paused'))}
            /\ \A a \in Callers :
                  /\ Eligible(a)' = Eligible(a)
                  /\ Eligible(a) /\ ~paused' => canClaim(a)' /\ GateError(a)' = OK]_vars

\* the admin paused and unpaused, and an account that had claimed a cooldown
\* earlier is eligible again
C26_Witness ==
    /\ Len(log) >= 2
    /\ log[Len(log) - 1] = FaucetPaused(TRUE)
    /\ log[Len(log)] = FaucetPaused(FALSE)
    /\ lastTx.op = "setPaused"
    /\ \E a \in Callers :
          /\ totalClaimed[a] = FAUCET_AMOUNT
          /\ balances[a] = FAUCET_AMOUNT
          /\ canClaim(a)

\* C27: a requestTokens by a, successful or not, leaves the claim record and
\* the balance of every other account and what the requires answer for it;
\* while the faucet is the minter and the supply has room, an eligible
\* account's claim succeeds whatever the records of the other accounts.
C27_AccountsIndependent ==
    [][\A a \in Callers :
         RequestStep(a) =>
            /\ \A b \in Addr \ {a} :
                  /\ lastClaimAt'[b] = lastClaimAt[b]
                  /\ totalClaimed'[b] = totalClaimed[b]
                  /\ balances'[b] = balances[b]
                  /\ GateError(b)' = GateError(b)
            /\ /\ ~paused /\ Eligible(a)
               /\ minter = FaucetAddr
               /\ totalSupply + FAUCET_AMOUNT <= MAX_SUPPLY
               => lastTx'.err = OK]_vars

\* one account claimed while the other was exhausted and in its cooldown
C27_Witness ==
    \E a, b \in Callers :
        /\ a # b
        /\ Requested(a, OK)
        /\ lastClaimAt[a] = now
        /\ totalClaimed[b] = MAX_CLAIM_AMOUNT
        /\ InCooldown(b)
        /\ totalClaimed[a] < totalClaimed[b]

C29_AdminFixed ==
    [][/\ \A c \in Callers :
            ConstructFaucet(c, TokenAddr) => admin' = c /\ paused' = FALSE
       /\ TxStep("TokenFaucet.constructor") /\ lastTx'.err = OK =>
            admin' = lastTx'.caller /\ ~isPaused'
       /\ FaucetExists => admin' = admin]_vars

\* the account that deployed the faucet, not the token's owner, has paused it
C29_Witness ==
    /\ FaucetExists
    /\ admin # owner
    /\ lastTx = Tx("setPaused", admin, OK, <<FaucetPaused(TRUE)>>)
    /\ paused
    /\ \E a \in Callers : totalClaimed[a] > 0

\* C30: every totalClaimed is a multiple of FAUCET_AMOUNT, as is
\* MAX_CLAIM_AMOUNT, so the exhaustion test of canClaim and the limit require
\* of requestTokens give the same answer for every account.
C30_ExhaustionTestsAgree ==
    /\ MAX_CLAIM_AMOUNT % FAUCET_AMOUNT = 0
    /\ \A a \in Addr :
          /\ totalClaimed[a] % FAUCET_AMOUNT = 0
          /\ totalClaimed[a] >= MAX_CLAIM_AMOUNT
                <=> ~(totalClaimed[a] + FAUCET_AMOUNT <= MAX_CLAIM_AMOUNT)

\* one account is one claim short of its limit and the other has reached it
C30_Witness ==
    \E a, b \in Callers :
        /\ totalClaimed[a] = MAX_CLAIM_AMOUNT - FAUCET_AMOUNT
        /\ totalClaimed[a] + FAUCET_AMOUNT <= MAX_CLAIM_AMOUNT
        /\ totalClaimed[b] >= MAX_CLAIM_AMOUNT

\* what the token has minted beyond what the faucet has recorded as claimed
Unclaimed == totalSupply - SumOver(totalClaimed, Addr)

\* C31: the claimed totals sum to at most the total supply; the two are
\* equal at deployment and move apart only in a mint called by another
\* minter than the faucet; a transfer changes neither, nor any claim record,
\* nor the answer of canClaim or requestTokens for any account.
C31_ClaimsBackedBySupply ==
    /\ Unclaimed = 0
    /\ [](Unclaimed >= 0)
    /\ [][/\ Unclaimed' # Unclaimed =>
               /\ lastTx'.op = "mint" /\ lastTx'.err = OK
               /\ lastTx'.caller # FaucetAddr
               /\ Unclaimed' > Unclaimed
          /\ TxStep("transfer") =>
               /\ UNCHANGED <<totalSupply, totalClaimed, lastClaimAt, paused>>
               /\ \A a \in Callers :
                     /\ canClaim(a)' = canClaim(a)
                     /\ RequestTokensError(a)' = RequestTokensError(a)]_vars

\* an account in its cooldown has transferred away all it had claimed, while
\* the faucet had been the only minter
C31_Witness ==
    \E a \in Callers :
        /\ lastTx = Tx("transfer", a, OK, <<Transfer(a, Deployer, FAUCET_AMOUNT)>>)
        /\ balances[a] = 0
        /\ totalClaimed[a] = FAUCET_AMOUNT
        /\ InCooldown(a)
        /\ ~canClaim(a)
        /\ Unclaimed = 0
        /\ totalSupply > 0

\* the supply has no room for another claim
SupplyUsedUp == totalSupply + FAUCET_AMOUNT > MAX_SUPPLY

\* C32 as stated: when the faucet is unpaused from some time on, every
\* account that keeps calling requestTokens reaches MAX_CLAIM_AMOUNT.
C32_Original ==
    <>[](~paused) =>
        \A a \in Callers : <>(totalClaimed[a] = MAX_CLAIM_AMOUNT)

\* C32: when the faucet is unpaused from some time on, every account that
\* keeps calling requestTokens reaches MAX_CLAIM_AMOUNT, unless the supply
\* runs out of room for another claim first.
C32_QuotaReached ==
    <>[](~paused) =>
        \A a \in Callers : <>(totalClaimed[a] = MAX_CLAIM_AMOUNT \/ SupplyUsedUp)

\* both callers have their full allowance, other accounts having claimed too
C32_Witness ==
    /\ \A a \in Callers : totalClaimed[a] = MAX_CLAIM_AMOUNT
    /\ totalClaimed[Others] > 0
    /\ ~SupplyUsedUp

\* C33 as stated: getConnectedAddress() is non-null exactly when
\* isWalletConnected() is true.
C33_AddressIffConnected ==
    (getConnectedAddress # Null) <=> isWalletConnected

\* C34 as stated: once the listeners are registered, a provider event has
\* exactly one window event dispatched for it.
C34_EventHandledOnce ==
    lastUI.op \in {"accountsChanged", "disconnect"} /\ listeners >= 1
        => lastUI.dispatched = 1

\* C35 as stated: when connectWallet has thrown, the module is disconnected
\* and the connected address is null.
C35_FailedConnectDisconnects ==
    [][lastUI'.op = "connectWallet" /\ lastUI'.result = "throw" =>
          ~isWalletConnected' /\ getConnectedAddress' = Null]_vars

\* what handleDisconnect leaves in the UI state
UIReset ==
    /\ app.address = Null
    /\ app.balance = 0
    /\ ~app.canClaimNow
    /\ app.remainingAllowance = 0

\* C36: while the App is not connected its UI state is reset (address null,
\* balance '0', canClaimNow false, remainingAllowance '0'): work started
\* before handleDisconnect writes nothing back
C36_ResetUntilConnect == ~app.connected => UIReset

\* C37: after handleConnect an eligible account's claim button becomes
\* enabled (or the App is disconnected again) by the timers and reads the
\* App itself started, without any event from the chain
C37_EligibleSeesButton ==
    app.connected ~> (\/ ~app.connected
                      \/ app.canClaimNow
                      \/ ~canClaim(app.address))

\* C38: when the wallet module is disconnected the App eventually shows
\* connected false and address null
C38_AppFollowsWallet ==
    (~isWalletConnected) ~> (~app.connected /\ app.address = Null)


TypeOK ==
    /\ now \in Nat
    /\ minter \in Addr
    /\ paused \in BOOLEAN
    /\ \A a \in Addr : balances[a] \in Nat /\ lastClaimAt[a] \in Nat
                       /\ totalClaimed[a] \in Nat
    /\ walletConnected \in BOOLEAN
    /\ connectedAddress \in Accounts \cup {Null}
    /\ listeners \in 0..MaxConnects
    /\ app.connected \in BOOLEAN
    /\ app.address \in Accounts \cup {Null}
    /\ \A t \in tasks : t.kind \in {"timer", "fetch"}
=============================================================================
